---- MODULE Spec2Model ----
(***************************************************************************)
(* Model of the infrastructure failure management agent of src/core.py:    *)
(* the world model WORLD_STATE, the tools over it, the oracle adapter      *)
(* llm_call, and the FSM driver InfrastructureAgent (step,                 *)
(* execute_state_action, run).                                             *)
(*                                                                         *)
(* Not modelled: the node "type" and crew "specialty" labels (copied or    *)
(* printed, never read by any condition), the free-text "thought",         *)
(* "action" and "observation" strings of a history record, console output. *)
(***************************************************************************)
EXTENDS Integers, Sequences, FiniteSets, TLC

\* ------------------------------------------------------------------ bounds
\* the constructor's max_steps is drawn from 1..MaxSteps
MaxSteps == 6
\* the oracle's node_ids / crew_ids lists have at most MaxArgLen entries
MaxArgLen == 2

\* ------------------------------------------------------------ world model
\* Key order of WORLD_STATE["nodes"] and WORLD_STATE["crews"] (dicts iterate in
\* insertion order); a three-node, two-crew table with the source's first ids.
NodeOrder == <<"Node_Water_Pump_A", "Node_Server_B", "Node_Power_Substation_C">>
CrewOrder == <<"Crew_Alpha", "Crew_Beta">>

Range(s) == {s[i] : i \in 1..Len(s)}
NodeIds == Range(NodeOrder)
CrewIds == Range(CrewOrder)

\* ids an oracle may name that are no key of the world model
UnknownNode == "Node_Unknown"
UnknownCrew == "Crew_Unknown"
\* Python's None: dict.get of a missing key
None == "None"

Criticalities == {"Low", "Medium", "High", "Critical"}

\* The rows of WORLD_STATE["nodes"] for the nodes of NodeOrder
SourceRow(n) ==
  CASE n = "Node_Water_Pump_A" -> [criticality |-> "High", population_affected |-> 5000]
    [] n = "Node_Server_B" -> [criticality |-> "Low", population_affected |-> 200]
    [] n = "Node_Power_Substation_C" -> [criticality |-> "Critical", population_affected |-> 15000]

\* Rows a broken node may hold instead (those of Node_Hospital_Generator,
\* Node_Water_Treatment and Node_Water_Pump_A): two tie on the criticality, the
\* higher criticality comes with the smallest population, and two nodes holding
\* the same row tie on both keys
Profiles ==
  {[criticality |-> "Critical", population_affected |-> 3000],
   [criticality |-> "High", population_affected |-> 8000],
   [criticality |-> "High", population_affected |-> 5000]}

NodeRecord(status, row) ==
  [status |-> status, criticality |-> row.criticality,
   population_affected |-> row.population_affected]

\* priority = {"Critical": 4, "High": 3, "Medium": 2, "Low": 1}
priority(c) ==
  CASE c = "Critical" -> 4
    [] c = "High" -> 3
    [] c = "Medium" -> 2
    [] c = "Low" -> 1

VARIABLES
  nodes,          \* WORLD_STATE["nodes"]: id -> [status, population_affected, criticality]
  crews,          \* WORLD_STATE["crews"]: id -> [status]
  state,          \* self.state
  step_count,     \* self.step_count
  max_steps,      \* self.max_steps
  failures,       \* self.memory["context"]["failures"]       (absent = <<>>)
  impact_reports, \* self.memory["context"]["impact_reports"] (absent = <<>>)
  repair_plan,    \* self.memory["context"]["repair_plan"]    (absent = <<>>)
  history,        \* self.memory["history"]
  pc,             \* where run() is: "loop", "saved" (record written), "crashed" (exception left run)
  initial_broken, \* run's local initial_broken
  initial_crews,  \* run's local initial_crews
  step_state,     \* the state in which the latest step started
  tools_called,   \* the tools execute_state_action invoked in the latest step, in order
  call_args,      \* the arguments of the latest assign_repair_crew call
  results         \* the outcome map the latest assign_repair_crew call returned

vars == <<nodes, crews, state, step_count, max_steps, failures, impact_reports,
          repair_plan, history, pc, initial_broken, initial_crews, step_state,
          tools_called, call_args, results>>

\* ------------------------------------------------------------------ tools
\* [x for x in order if P(x)]
Filter(order, P(_)) == SelectSeq(order, P)

IsBroken(n) == nodes[n].status = "Broken"
IsAvailable(c) == crews[c].status = "Available"
IsBusy(c) == crews[c].status = "Busy"

detect_failure_nodes == Filter(NodeOrder, IsBroken)

estimate_impact(node_id) ==
  IF node_id \in NodeIds
    THEN [node_id |-> node_id,
          population_affected |-> nodes[node_id].population_affected,
          criticality |-> nodes[node_id].criticality]
    ELSE [error |-> "Node not found"]

check_crew_availability == [c \in CrewIds |-> crews[c].status]

Min(a, b) == IF a <= b THEN a ELSE b

\* results[f"{c}->{n}"] = v
SetResult(r, c, n, v) ==
  [p \in DOMAIN r \cup {<<c, n>>} |-> IF p = <<c, n>> THEN v ELSE r[p]]

\* AssignPair without the test of the crew's status (every known pair succeeds)
AssignPair_IgnoresStatus(w, n, c) ==
  IF c \notin CrewIds \/ n \notin NodeIds
    THEN [w EXCEPT !.raised = TRUE]
    ELSE [w EXCEPT !.nodes[n].status = "Repairing",
                   !.crews[c].status = "Busy",
                   !.results = SetResult(w.results, c, n, "Success")]

\* AssignPair releasing the crew it finds not Available
AssignPair_ReleasesBusy(w, n, c) ==
  IF c \notin CrewIds
    THEN [w EXCEPT !.raised = TRUE]
    ELSE IF w.crews[c].status # "Available"
      THEN [w EXCEPT !.crews[c].status = "Available",
                     !.results = SetResult(w.results, c, n, "Failed")]
      ELSE IF n \notin NodeIds
        THEN [w EXCEPT !.raised = TRUE]
        ELSE [w EXCEPT !.nodes[n].status = "Repairing",
                       !.crews[c].status = "Busy",
                       !.results = SetResult(w.results, c, n, "Success")]

\* One iteration of the loop of assign_repair_crew on the pair (n, c), from the
\* intermediate world w = [nodes, crews, results, raised].
\* WORLD_STATE["crews"][c] and WORLD_STATE["nodes"][n] raise KeyError on a key
\* the dict does not hold; the function stops there with what it has done so far.
AssignPair(w, n, c) ==
  IF c \notin CrewIds
    THEN [w EXCEPT !.raised = TRUE]
    ELSE IF w.crews[c].status # "Available"
      THEN [w EXCEPT !.results = SetResult(w.results, c, n, "Failed")]
      ELSE IF n \notin NodeIds
        THEN [w EXCEPT !.raised = TRUE]
        ELSE [w EXCEPT !.nodes[n].status = "Repairing",
                       !.crews[c].status = "Busy",
                       !.results = SetResult(w.results, c, n, "Success")]

RECURSIVE AssignFrom(_, _, _, _)
\* for n, c in zip(node_ids, crew_ids), from pair i on
AssignFrom(w, node_ids, crew_ids, i) ==
  IF w.raised \/ i > Min(Len(node_ids), Len(crew_ids))
    THEN w
    ELSE AssignFrom(AssignPair(w, node_ids[i], crew_ids[i]), node_ids, crew_ids, i + 1)

\* assign_repair_crew returning after the first pair of the lists
assign_repair_crew_FirstPairOnly(node_ids, crew_ids) ==
  LET w == [nodes |-> nodes, crews |-> crews, results |-> <<>>, raised |-> FALSE]
  IN IF Min(Len(node_ids), Len(crew_ids)) = 0
       THEN w
       ELSE AssignPair(w, node_ids[1], crew_ids[1])

assign_repair_crew(node_ids, crew_ids) ==
  AssignFrom([nodes |-> nodes, crews |-> crews, results |-> <<>>, raised |-> FALSE],
             node_ids, crew_ids, 1)

\* --------------------------------------------------------- planning (PLAN)
\* the sort key (priority[x["criticality"]], x["population_affected"]), compared
\* as Python compares tuples: a >= b
KeyGE(a, b) ==
  \/ priority(a.criticality) > priority(b.criticality)
  \/ /\ priority(a.criticality) = priority(b.criticality)
     /\ a.population_affected >= b.population_affected

\* InsertDesc with x put ahead of the elements of equal key (an unstable sort)
InsertDesc_Unstable(s, x) ==
  LET ahead == {i \in 1..Len(s) : \A j \in 1..i : KeyGE(s[j], x) /\ ~KeyGE(x, s[j])}
      k == Cardinality(ahead)
  IN SubSeq(s, 1, k) \o <<x>> \o SubSeq(s, k + 1, Len(s))

\* x put behind every element whose key is >= its own: with reverse=True Python's
\* sort is descending and keeps elements of equal key in their original order
InsertDesc(s, x) ==
  LET ahead == {i \in 1..Len(s) : \A j \in 1..i : KeyGE(s[j], x)}
      k == Cardinality(ahead)
  IN SubSeq(s, 1, k) \o <<x>> \o SubSeq(s, k + 1, Len(s))

RECURSIVE SortFrom(_, _, _)
SortFrom(sorted, s, i) ==
  IF i > Len(s) THEN sorted ELSE SortFrom(InsertDesc(sorted, s[i]), s, i + 1)

\* impacts.sort(key=..., reverse=True)
SortImpacts(impacts) == SortFrom(<<>>, impacts, 1)

\* MakePlan with a pair for every report, the crews taken round-robin
MakePlan_EveryReport(impacts, available_crews) ==
  IF available_crews = <<>> THEN <<>>
  ELSE [i \in 1..Len(impacts) |->
          [node |-> impacts[i].node_id,
           crew |-> available_crews[((i - 1) % Len(available_crews)) + 1]]]

\* for i, imp in enumerate(impacts): if i < len(available_crews): plan.append(...)
MakePlan(impacts, available_crews) ==
  [i \in 1..Min(Len(impacts), Len(available_crews)) |->
     [node |-> impacts[i].node_id, crew |-> available_crews[i]]]

\* ----------------------------------------------------------------- oracle
ActionTokens == {"none", "detect_failure_nodes", "estimate_impact", "assign_repair_crew"}

SeqsUpTo(S, n) == UNION {[1..k -> S] : k \in 0..n}

\* What json.loads hands back, as far as step reads it: whether the value is a JSON
\* object, whether its "arguments" is a mapping, "action" (a missing one reads as
\* "none"), and of the arguments "node_id", "node_ids", "crew_ids" (a missing
\* node_id reads as None, a missing list as the empty list).
Object(action, node_id, node_ids, crew_ids) ==
  [is_object |-> TRUE, args_is_mapping |-> TRUE, action |-> action,
   node_id |-> node_id, node_ids |-> node_ids, crew_ids |-> crew_ids]

\* {"thought": "LLM error", "action": "none", "arguments": {}}
Fallback == Object("none", None, <<>>, <<>>)

\* a JSON list, string, number or null
NotAnObject == [Fallback EXCEPT !.is_object = FALSE]

JsonValues ==
  {NotAnObject}
  \cup {[Object(a, None, <<>>, <<>>) EXCEPT !.args_is_mapping = FALSE] : a \in ActionTokens}
  \cup {Object(a, n, <<>>, <<>>) :
          a \in ActionTokens, n \in NodeIds \cup {UnknownNode, None}}
  \cup {Object(a, None, ns, cs) :
          a \in {"none", "assign_repair_crew"},
          ns \in SeqsUpTo(NodeIds \cup {UnknownNode}, MaxArgLen),
          cs \in SeqsUpTo(CrewIds \cup {UnknownCrew}, MaxArgLen)}

\* the outcomes of ollama.chat followed by json.loads: an exception (transport
\* failure, timeout, text that is no JSON), or a parsed JSON value
OracleOutcomes ==
  {[raised |-> TRUE, value |-> Fallback]}
  \cup {[raised |-> FALSE, value |-> v] : v \in JsonValues}

\* try: return json.loads(...)  except: return the fallback
llm_call(o) == IF o.raised THEN Fallback ELSE o.value

\* The outcomes that differ in what the branch of state st uses of the decision
\* (DETECT and PLAN: whether it is an object, and the action; ANALYZE: also whether
\* the arguments are a mapping and, when the action is estimate_impact, node_id;
\* ACT: the action and, only when it is assign_repair_crew, the arguments and their
\* two lists); what a branch does not use is left at the fallback's value.
OutcomesFor(st) ==
  {o \in OracleOutcomes :
     LET v == o.value
     IN /\ st \in {"DETECT", "PLAN"} =>
             \/ v = NotAnObject
             \/ \E a \in ActionTokens : v = Object(a, None, <<>>, <<>>)
        /\ st = "ANALYZE" => /\ v.node_ids = <<>> /\ v.crew_ids = <<>>
                             /\ v.action # "estimate_impact" => v.node_id = None
        /\ st = "ACT" => /\ v.node_id = None
                         /\ v.action # "assign_repair_crew" =>
                              v.args_is_mapping /\ v.node_ids = <<>> /\ v.crew_ids = <<>>}

DetectOutcomes == OutcomesFor("DETECT")
AnalyzeOutcomes == OutcomesFor("ANALYZE")
PlanOutcomes == OutcomesFor("PLAN")
ActOutcomes == OutcomesFor("ACT")

\* every oracle outcome after which step holds the fallback decision
FallbackOutcomes == {o \in OracleOutcomes : llm_call(o) = Fallback}

\* ------------------------------------------------------------ construction
\* InfrastructureAgent.__init__, run up to its loop (lines 255-256), and the ghost
\* variables before the first step
InitAgent ==
  /\ initial_broken = detect_failure_nodes
  /\ initial_crews = check_crew_availability
  /\ state = "DETECT"
  /\ step_count = 0
  /\ failures = <<>>
  /\ impact_reports = <<>>
  /\ repair_plan = <<>>
  /\ history = <<>>
  /\ pc = "loop"
  /\ step_state = "NONE"
  /\ tools_called = <<>>
  /\ call_args = [node_ids |-> <<>>, crew_ids |-> <<>>]
  /\ results = <<>>

\* WORLD_STATE as the module sets it up: every node Operational or Broken with its
\* row of the table, every crew Available or Busy; any max_steps up to MaxSteps
Init ==
  /\ \E st \in [NodeIds -> {"Operational", "Broken"}] :
       nodes = [n \in NodeIds |-> NodeRecord(st[n], SourceRow(n))]
  /\ crews \in [CrewIds -> [status : {"Available", "Busy"}]]
  /\ max_steps \in 1..MaxSteps
  /\ InitAgent

\* The same with the rows of the broken nodes drawn from Profiles, and a budget
\* that lets every run reach PLAN
InitProfiles ==
  /\ \E st \in [NodeIds -> {"Operational", "Broken"}], row \in [NodeIds -> Profiles] :
       nodes = [n \in NodeIds |->
                  NodeRecord(st[n], IF st[n] = "Broken" THEN row[n] ELSE SourceRow(n))]
  /\ crews \in [CrewIds -> [status : {"Available", "Busy"}]]
  /\ max_steps = MaxSteps
  /\ InitAgent

\* ------------------------------------------------------------------ driver
\* while self.state != AgentState.FINAL and self.step_count < self.max_steps
LoopGuard == state # "FINAL" /\ step_count < max_steps

Running == pc = "loop" /\ LoopGuard

\* step, lines 119-123: the context snapshot taken before the oracle is asked
available_crews == Filter(CrewOrder, IsAvailable)
analyzed == [i \in 1..Len(impact_reports) |-> impact_reports[i].node_id]
NotAnalyzed(n) == n \notin Range(analyzed)
remaining == IF state = "ANALYZE" THEN Filter(failures, NotAnalyzed) ELSE <<>>

\* self.memory["history"].append(...): written after execute_state_action has
\* returned, so "state" and "crews_status" are read from the state it left
Record(new_state, new_crews) ==
  /\ step_count' = step_count + 1
  /\ step_state' = state
  /\ history' = Append(history, [step |-> step_count + 1,
                                 state |-> new_state,
                                 crews_status |-> [c \in CrewIds |-> new_crews[c].status]])
  /\ UNCHANGED <<max_steps, pc, initial_broken, initial_crews>>

\* An exception leaves step and run: step_count is already counted, nothing is
\* appended to the history, the run record is not written.
Raise ==
  /\ step_count' = step_count + 1
  /\ step_state' = state
  /\ pc' = "crashed"
  /\ UNCHANGED <<max_steps, history, state, initial_broken, initial_crews>>

\* ToolOf dispatching on the action token the oracle named
ToolOf_TrustsOracle(st, action) ==
  IF action = "none" THEN <<>> ELSE <<action>>

\* execute_state_action: the tool the branch of state st calls, whatever action
\* the oracle named (DETECT overrides the action, the other branches never
\* dispatch on it); PLAN calls none
ToolOf(st, action) ==
  CASE st = "DETECT" -> <<"detect_failure_nodes">>
    [] st = "ANALYZE" -> <<"estimate_impact">>
    [] st = "PLAN" -> <<>>
    [] st = "ACT" -> <<"assign_repair_crew">>

\* execute_state_action, DETECT branch
Detect(o) ==
  LET decision == llm_call(o)
      obs == detect_failure_nodes
  IN /\ state = "DETECT"
     /\ decision.is_object
     /\ tools_called' = ToolOf(state, decision.action)
     /\ failures' = obs
     /\ state' = IF obs # <<>> THEN "ANALYZE" ELSE "FINAL"
     /\ Record(IF obs # <<>> THEN "ANALYZE" ELSE "FINAL", crews)
     /\ UNCHANGED <<nodes, crews, impact_reports, repair_plan, call_args, results>>

\* AnalyzeTarget without the substitution of the first remaining node
AnalyzeTarget_NoDefault(decision) == decision.node_id

\* execute_state_action, ANALYZE branch: the node the branch settles on
AnalyzeTarget(decision) ==
  IF decision.action # "estimate_impact" \/ decision.node_id = None
    THEN IF remaining # <<>> THEN remaining[1] ELSE None
    ELSE decision.node_id

\* CanAnalyze without the test that the node has no report yet
CanAnalyze_AllowsRepeat(node_id) ==
  /\ node_id # None
  /\ node_id \in Range(failures)

\* if node_id and node_id in failures and node_id not in analyzed
CanAnalyze(node_id) ==
  /\ node_id # None
  /\ node_id \in Range(failures)
  /\ node_id \notin Range(analyzed)

\* AllAnalyzed satisfied by the first report
AllAnalyzed_AnyReport(reports) == reports # <<>>

\* all(n in new_analyzed for n in failures)
AllAnalyzed(reports) ==
  \A n \in Range(failures) : \E i \in 1..Len(reports) : reports[i].node_id = n

\* execute_state_action, ANALYZE branch
Analyze(o) ==
  LET decision == llm_call(o)
      node_id == AnalyzeTarget(decision)
      new_reports == Append(impact_reports, estimate_impact(node_id))
      new_state == IF AllAnalyzed(new_reports) THEN "PLAN" ELSE "ANALYZE"
  IN /\ state = "ANALYZE"
     /\ decision.is_object
     /\ decision.args_is_mapping
     /\ IF CanAnalyze(node_id)
          THEN /\ tools_called' = ToolOf(state, decision.action)
               /\ impact_reports' = new_reports
               /\ state' = new_state
               /\ Record(new_state, crews)
          ELSE /\ tools_called' = <<>>
               /\ UNCHANGED <<impact_reports, state>>
               /\ Record(state, crews)
     /\ UNCHANGED <<nodes, crews, failures, repair_plan, call_args, results>>

\* execute_state_action, PLAN branch
Plan(o) ==
  LET decision == llm_call(o)
      impacts == SortImpacts(impact_reports)
      plan == MakePlan(impacts, available_crews)
  IN /\ state = "PLAN"
     /\ decision.is_object
     /\ tools_called' = ToolOf(state, decision.action)
     /\ IF impact_reports = <<>>
          THEN /\ state' = "FINAL"
               /\ Record("FINAL", crews)
               /\ UNCHANGED <<impact_reports, repair_plan>>
          ELSE /\ impact_reports' = impacts
               /\ repair_plan' = plan
               /\ state' = IF plan # <<>> THEN "ACT" ELSE "FINAL"
               /\ Record(IF plan # <<>> THEN "ACT" ELSE "FINAL", crews)
     /\ UNCHANGED <<nodes, crews, failures, call_args, results>>

\* execute_state_action, ACT branch: the lists handed to assign_repair_crew
ActArgs(decision) ==
  IF decision.action # "assign_repair_crew" \/ decision.node_ids = <<>>
    THEN [node_ids |-> [i \in 1..Len(repair_plan) |-> repair_plan[i].node],
          crew_ids |-> [i \in 1..Len(repair_plan) |-> repair_plan[i].crew]]
    ELSE [node_ids |-> decision.node_ids, crew_ids |-> decision.crew_ids]

Act(o) ==
  LET decision == llm_call(o)
      args == ActArgs(decision)
      w == assign_repair_crew(args.node_ids, args.crew_ids)
  IN /\ state = "ACT"
     /\ decision.is_object
     /\ decision.action = "assign_repair_crew" => decision.args_is_mapping
     /\ tools_called' = ToolOf(state, decision.action)
     /\ call_args' = args
     /\ nodes' = w.nodes
     /\ crews' = w.crews
     /\ IF w.raised
          THEN results' = <<>> /\ Raise
          ELSE results' = w.results /\ state' = "FINAL" /\ Record("FINAL", w.crews)
     /\ UNCHANGED <<failures, impact_reports, repair_plan>>

\* decision.get on a JSON value that is no object (step, line 141), or args.get
\* on an "arguments" that is no mapping (ANALYZE, line 173; ACT, line 230, which
\* reads the arguments only when the action is assign_repair_crew): AttributeError
Malformed(o) ==
  LET decision == llm_call(o)
  IN /\ \/ ~decision.is_object
        \/ /\ ~decision.args_is_mapping
           /\ \/ state = "ANALYZE"
              \/ state = "ACT" /\ decision.action = "assign_repair_crew"
     /\ tools_called' = <<>>
     /\ Raise
     /\ UNCHANGED <<nodes, crews, failures, impact_reports, repair_plan, call_args, results>>

StepOutcomes ==
  CASE state = "DETECT" -> DetectOutcomes
    [] state = "ANALYZE" -> AnalyzeOutcomes
    [] state = "PLAN" -> PlanOutcomes
    [] state = "ACT" -> ActOutcomes

StepDetect == Running /\ state = "DETECT" /\ \E o \in DetectOutcomes : Detect(o)
StepAnalyze == Running /\ state = "ANALYZE" /\ \E o \in AnalyzeOutcomes : Analyze(o)
StepPlan == Running /\ state = "PLAN" /\ \E o \in PlanOutcomes : Plan(o)
StepAct == Running /\ state = "ACT" /\ \E o \in ActOutcomes : Act(o)
StepMalformed == Running /\ \E o \in StepOutcomes : Malformed(o)

\* run, lines 295-299: the loop has ended, the run record is written
Save ==
  /\ pc = "loop"
  /\ ~LoopGuard
  /\ pc' = "saved"
  /\ UNCHANGED <<nodes, crews, state, step_count, max_steps, failures, impact_reports,
                 repair_plan, history, initial_broken, initial_crews, step_state,
                 tools_called, call_args, results>>

Next == StepDetect \/ StepAnalyze \/ StepPlan \/ StepAct \/ StepMalformed \/ Save

Spec == Init /\ [][Next]_vars

\* the same program with an oracle whose every call ends in the fallback decision
FallbackDetect == Running /\ state = "DETECT" /\ \E o \in FallbackOutcomes : Detect(o)
FallbackAnalyze == Running /\ state = "ANALYZE" /\ \E o \in FallbackOutcomes : Analyze(o)
FallbackPlan == Running /\ state = "PLAN" /\ \E o \in FallbackOutcomes : Plan(o)
FallbackAct == Running /\ state = "ACT" /\ \E o \in FallbackOutcomes : Act(o)

NextFallback == FallbackDetect \/ FallbackAnalyze \/ FallbackPlan \/ FallbackAct \/ Save

SpecFallback == Init /\ [][NextFallback]_vars

\* the program on the worlds of InitProfiles; the oracle is free up to the PLAN
\* step and falls back in ACT
NextPlanning ==
  StepDetect \/ StepAnalyze \/ StepPlan \/ StepMalformed \/ FallbackAct \/ Save

SpecPlanning == InitProfiles /\ [][NextPlanning]_vars

\* ================================================================= claims
\* the pairs zip(node_ids, crew_ids) of the latest assign_repair_crew call
Pairs == 1..Min(Len(call_args.node_ids), Len(call_args.crew_ids))
ActStepDone == step_state = "ACT" /\ tools_called = <<"assign_repair_crew">>
PlanNodes == [i \in 1..Len(repair_plan) |-> repair_plan[i].node]

\* C1: in every step the tools execute_state_action has invoked are only the legal
\* tool of the state the step started in: detect_failure_nodes in DETECT (once,
\* when the step completes), estimate_impact (at most once) in ANALYZE, none in
\* PLAN, assign_repair_crew in ACT (once), whatever the oracle decided.
C1_OnlyLegalTool ==
  /\ Len(tools_called) <= 1
  /\ step_state = "PLAN" => tools_called = <<>>
  /\ (pc # "crashed" /\ step_state \in {"DETECT", "ACT"}) => Len(tools_called) = 1
  /\ \A i \in 1..Len(tools_called) :
       \/ step_state = "DETECT" /\ tools_called[i] = "detect_failure_nodes"
       \/ step_state = "ANALYZE" /\ tools_called[i] = "estimate_impact"
       \/ step_state = "ACT" /\ tools_called[i] = "assign_repair_crew"

\* a step of every state has run; the ACT step ran on lists the oracle supplied
C1_Witness ==
  /\ ActStepDone
  /\ call_args.node_ids # PlanNodes
  /\ Len(history) >= 4

\* C2: an ACT step whose assign_repair_crew call holds a pair with an unknown node
\* id or crew id completes and moves the agent to FINAL, and that pair is recorded
\* as failed in the outcome map.
C2_UnknownIdIsPairFailure ==
  (/\ ActStepDone
   /\ \E i \in Pairs : \/ call_args.node_ids[i] \notin NodeIds
                       \/ call_args.crew_ids[i] \notin CrewIds)
  => /\ pc # "crashed"
     /\ state = "FINAL"
     /\ \A i \in Pairs :
          (call_args.node_ids[i] \notin NodeIds \/ call_args.crew_ids[i] \notin CrewIds)
          => /\ <<call_args.crew_ids[i], call_args.node_ids[i]>> \in DOMAIN results
             /\ results[<<call_args.crew_ids[i], call_args.node_ids[i]>>] = "Failed"

\* C3: an assign_repair_crew call with node-id and crew-id lists of different
\* lengths changes no node status and no crew status, and returns no success.
C3_MismatchChangesNothing ==
  [][(/\ state = "ACT"
      /\ tools_called' = <<"assign_repair_crew">>
      /\ Len(call_args'.node_ids) # Len(call_args'.crew_ids))
     => /\ nodes' = nodes
        /\ crews' = crews
        /\ \A p \in DOMAIN results' : results'[p] # "Success"]_vars

\* C4: whatever the oracle call ends in, the step that consumes the decision of
\* llm_call completes: no step ends in an unhandled error before it has called a
\* tool (the error of reading a decision that is no well-formed mapping).
C4_DecisionAlwaysConsumed == ~(pc = "crashed" /\ tools_called = <<>>)

\* C5: every completed ANALYZE step that starts with a non-empty remaining list
\* adds exactly one impact report, for a node of the remaining list.
C5_OneReportPerAnalyzeStep ==
  [][(/\ state = "ANALYZE"
      /\ remaining # <<>>
      /\ step_count' = step_count + 1
      /\ pc' = "loop")
     => /\ Len(impact_reports') = Len(impact_reports) + 1
        /\ SubSeq(impact_reports', 1, Len(impact_reports)) = impact_reports
        /\ impact_reports'[Len(impact_reports')].node_id \in Range(remaining)]_vars

\* C6: step_count never exceeds max_steps, and the loop ends only at FINAL or at
\* the step cap, after which the run record is written: run never ends otherwise.
C6_BoundedRunIsSaved ==
  /\ step_count <= max_steps
  /\ pc \in {"loop", "saved"}
  /\ pc = "saved" => (state = "FINAL" \/ step_count = max_steps)

\* the number k of broken nodes run starts with, and the step at which a run
\* whose every decision is the fallback is said to reach FINAL
C7_k == Len(initial_broken)
C7_FinalStep ==
  IF C7_k = 0 THEN 1
  ELSE IF \A c \in CrewIds : initial_crews[c] # "Available" THEN C7_k + 2
  ELSE C7_k + 3

\* C7: when every oracle call yields the fallback decision and max_steps >= k+3,
\* the run is at FINAL exactly from step C7_FinalStep on (1 when k = 0, with one
\* history entry; k+2 when no crew is Available; k+3 otherwise), takes no further
\* step, and ends with the record written at FINAL.
C7_FallbackRunReachesFinal ==
  max_steps >= C7_k + 3
  => /\ pc # "crashed"
     /\ step_count <= C7_FinalStep
     /\ state = "FINAL" <=> step_count = C7_FinalStep
     /\ pc = "saved" => state = "FINAL"
     /\ (C7_k = 0 /\ state = "FINAL") => Len(history) = 1

\* one broken node and an available crew: FINAL at step 4, the node Repairing
C7_Witness ==
  /\ pc = "saved"
  /\ C7_k = 1
  /\ state = "FINAL"
  /\ step_count = 4
  /\ nodes[initial_broken[1]].status = "Repairing"

\* pair i of the call (node_ids, crew_ids) is the first pair of a crew that was
\* Available in cr, the crews before the call
C8_FirstOfAvailable(node_ids, crew_ids, cr, i) ==
  /\ crew_ids[i] \in CrewIds
  /\ cr[crew_ids[i]].status = "Available"
  /\ \A j \in 1..(i - 1) : crew_ids[j] # crew_ids[i]

\* C8: an assign_repair_crew call changes a crew only from Available to Busy, and
\* changes a node only through the first pair of a crew that was Available before
\* the call; in a call that returns, every other pair (its crew Busy before the
\* call, or taken by an earlier pair of the same call) is recorded as failed.
C8_BusyCrewNeverReassigned ==
  [][(state = "ACT" /\ tools_called' = <<"assign_repair_crew">>)
     => LET node_ids == call_args'.node_ids
            crew_ids == call_args'.crew_ids
            P == 1..Min(Len(node_ids), Len(crew_ids))
        IN /\ \A c \in CrewIds :
                crews'[c] # crews[c]
                => /\ crews[c].status = "Available"
                   /\ crews'[c].status = "Busy"
                   /\ \E i \in P : crew_ids[i] = c
           /\ \A n \in NodeIds :
                nodes'[n] # nodes[n]
                => \E i \in P : /\ node_ids[i] = n
                                /\ C8_FirstOfAvailable(node_ids, crew_ids, crews, i)
           /\ pc' # "crashed"
              => \A i \in P :
                   ~C8_FirstOfAvailable(node_ids, crew_ids, crews, i)
                   => results'[<<crew_ids[i], node_ids[i]>>] = "Failed"]_vars

\* a call that named one crew for two nodes: the first pair succeeded, the second
\* is recorded as failed and its node is not Repairing
C8_Witness ==
  /\ ActStepDone
  /\ pc # "crashed"
  /\ \E i, j \in Pairs :
       /\ i < j
       /\ call_args.crew_ids[i] = call_args.crew_ids[j]
       /\ call_args.node_ids[i] # call_args.node_ids[j]
       /\ call_args.node_ids[j] \in NodeIds
       /\ results[<<call_args.crew_ids[i], call_args.node_ids[i]>>] = "Success"
       /\ results[<<call_args.crew_ids[j], call_args.node_ids[j]>>] = "Failed"
       /\ nodes[call_args.node_ids[j]].status # "Repairing"

\* C9: the plan a PLAN step stores names each crew at most once and each node at
\* most once, every planned crew is Available when the step starts, and the plan
\* is no longer than min(number of impact reports, number of Available crews).
C9_PlanIsOneToOne ==
  [][(state = "PLAN" /\ state' # "PLAN")
     => LET plan == repair_plan'
        IN /\ \A i, j \in 1..Len(plan) :
                i # j => plan[i].crew # plan[j].crew /\ plan[i].node # plan[j].node
           /\ \A i \in 1..Len(plan) :
                plan[i].crew \in CrewIds /\ crews[plan[i].crew].status = "Available"
           /\ Len(plan) <= Len(impact_reports)
           /\ Len(plan) <= Cardinality({c \in CrewIds : crews[c].status = "Available"})]_vars

\* a PLAN step that had more reports than Available crews
C9_Witness ==
  /\ step_state = "PLAN"
  /\ state = "ACT"
  /\ Len(impact_reports) = 3
  /\ Len(repair_plan) = 2

\* the priority key of a report, as the claim states it
C10_Rank(r) ==
  CASE r.criticality = "Critical" -> 4
    [] r.criticality = "High" -> 3
    [] r.criticality = "Medium" -> 2
    [] r.criticality = "Low" -> 1
C10_SameKey(a, b) ==
  C10_Rank(a) = C10_Rank(b) /\ a.population_affected = b.population_affected
C10_Before(a, b) ==
  \/ C10_Rank(a) > C10_Rank(b)
  \/ C10_Rank(a) = C10_Rank(b) /\ a.population_affected > b.population_affected

\* C10: a PLAN step leaves the impact reports in descending order of (criticality
\* rank, population_affected), reports of equal key in the order they were
\* inserted in; the plan's nodes are the first reports of that order, so every
\* analyzed node left out of the plan has a key no higher than every planned node.
C10_PlanByPriority ==
  [][(state = "PLAN" /\ state' # "PLAN" /\ impact_reports # <<>>)
     => LET old == impact_reports
            new == impact_reports'
            plan == repair_plan'
            Pos(r) == CHOOSE i \in 1..Len(old) : old[i] = r
        IN /\ Len(new) = Len(old)
           /\ Range(new) = Range(old)
           /\ \A i, j \in 1..Len(new) :
                i < j => \/ C10_Before(new[i], new[j])
                         \/ C10_SameKey(new[i], new[j]) /\ Pos(new[i]) < Pos(new[j])
           /\ Len(plan) <= Len(new)
           /\ \A i \in 1..Len(plan) : plan[i].node = new[i].node_id
           /\ \A i \in 1..Len(plan), j \in 1..Len(new) :
                (\A h \in 1..Len(plan) : plan[h].node # new[j].node_id)
                => ~C10_Before(new[j], new[i])]_vars

\* a plan of fewer pairs than reports, over reports two of which tie on the key
\* and were inserted against the table's order
C10_Witness ==
  /\ step_state = "PLAN"
  /\ state = "ACT"
  /\ Len(repair_plan) < Len(impact_reports)
  /\ \E i, j \in 1..Len(impact_reports) :
       /\ i < j
       /\ C10_SameKey(impact_reports[i], impact_reports[j])
       /\ impact_reports[i].node_id = NodeOrder[3]
       /\ impact_reports[j].node_id = NodeOrder[1]

\* C11: at every point of a run the impact reports hold no two reports of the
\* same node_id, and every report's node_id is in the detected failures list.
C11_OneReportPerNode ==
  /\ \A i, j \in 1..Len(impact_reports) :
       i # j => impact_reports[i].node_id # impact_reports[j].node_id
  /\ \A i \in 1..Len(impact_reports) : impact_reports[i].node_id \in Range(failures)

\* an ANALYZE step that added no report (the node it settled on was refused)
\* while reports exist and failures are still to be analyzed
C11_Witness ==
  /\ step_state = "ANALYZE"
  /\ tools_called = <<>>
  /\ pc = "loop"
  /\ Len(impact_reports) >= 2
  /\ Len(impact_reports) < Len(failures)

\* C12: the agent starts in DETECT; every change of state is a transition of the
\* table (DETECT->ANALYZE with a broken node, DETECT->FINAL with none,
\* ANALYZE->PLAN, PLAN->ACT with a non-empty plan, PLAN->FINAL with an empty one,
\* ACT->FINAL; ANALYZE may stay), never backward; and every ACT step ends in
\* FINAL, whatever the outcomes of its pairs.
C12_OnlyTableTransitions ==
  /\ state = "DETECT"
  /\ [][/\ state' # state
           => \/ state = "DETECT" /\ state' = "ANALYZE" /\ detect_failure_nodes # <<>>
              \/ state = "DETECT" /\ state' = "FINAL" /\ detect_failure_nodes = <<>>
              \/ state = "ANALYZE" /\ state' = "PLAN"
              \/ state = "PLAN" /\ state' = "ACT" /\ repair_plan' # <<>>
              \/ state = "PLAN" /\ state' = "FINAL" /\ repair_plan' = <<>>
              \/ state = "ACT" /\ state' = "FINAL"
        /\ (state = "ACT" /\ step_count' = step_count + 1) => state' = "FINAL"]_vars

PlanCrews == [i \in 1..Len(repair_plan) |-> repair_plan[i].crew]

\* the proposals the claim calls missing or malformed
C13_MissingOrMalformed(decision) ==
  \/ decision.action # "assign_repair_crew"
  \/ decision.node_ids = <<>>
  \/ decision.crew_ids = <<>>
  \/ Len(decision.crew_ids) # Len(decision.node_ids)

\* C13: in an ACT step, whenever the oracle's proposal is missing or malformed
\* (action other than assign_repair_crew, node_ids missing or empty, crew_ids
\* missing, empty or of another length than node_ids), the lists handed to
\* assign_repair_crew are the nodes and crews of the stored plan, in plan order.
C13_MalformedProposalRunsPlan ==
  [][state = "ACT"
     => \A o \in ActOutcomes :
          (C13_MissingOrMalformed(llm_call(o)) /\ Act(o))
          => /\ call_args'.node_ids = PlanNodes
             /\ call_args'.crew_ids = PlanCrews]_vars

\* C14: the agent is in PLAN or ACT only when every node of the failures list has
\* an impact report; no step leaves ANALYZE for PLAN while a detected failure is
\* unanalyzed.
C14_PlanOnlyAfterAllAnalyzed ==
  state \in {"PLAN", "ACT"}
  => \A n \in Range(failures) :
       \E i \in 1..Len(impact_reports) : impact_reports[i].node_id = n

\* PLAN reached over three failures after an ANALYZE step that added no report
C14_Witness ==
  /\ state = "PLAN"
  /\ Len(failures) = 3
  /\ step_count > 1 + Len(failures)

\* C15: an ACT step that hands the stored plan to assign_repair_crew completes
\* with every plan pair successful: afterwards each planned node is Repairing and
\* each planned crew Busy, every other node (the Broken nodes left out of the
\* plan among them) and every other crew is as before, and the number of crews
\* that turned Busy is the length of the plan.
C15_PlanPairsAllSucceed ==
  [][(/\ state = "ACT"
      /\ tools_called' = <<"assign_repair_crew">>
      /\ call_args'.node_ids = PlanNodes
      /\ call_args'.crew_ids = PlanCrews)
     => /\ pc' # "crashed"
        /\ state' = "FINAL"
        /\ \A i \in 1..Len(repair_plan) :
             /\ nodes'[repair_plan[i].node].status = "Repairing"
             /\ crews'[repair_plan[i].crew].status = "Busy"
             /\ results'[<<repair_plan[i].crew, repair_plan[i].node>>] = "Success"
        /\ \A n \in NodeIds \ Range(PlanNodes) : nodes'[n] = nodes[n]
        /\ \A n \in Range(failures) \ Range(PlanNodes) : nodes'[n].status = "Broken"
        /\ \A c \in CrewIds \ Range(PlanCrews) : crews'[c] = crews[c]
        /\ Cardinality({c \in CrewIds : crews[c].status # "Busy" /\ crews'[c].status = "Busy"})
             = Len(repair_plan)]_vars

\* the plan of two pairs over three failures was executed: the third failure is
\* still Broken
C15_Witness ==
  /\ ActStepDone
  /\ state = "FINAL"
  /\ call_args.node_ids = PlanNodes
  /\ call_args.crew_ids = PlanCrews
  /\ Len(repair_plan) = 2
  /\ \E n \in Range(failures) \ Range(PlanNodes) : nodes[n].status = "Broken"

\* C16: node and crew statuses change only inside an ACT step: every step taken
\* in DETECT, ANALYZE or PLAN (with the calls of detect_failure_nodes,
\* estimate_impact and check_crew_availability it makes) leaves every node and
\* every crew as it was, and no step turns a Busy crew back to Available.
C16_StatusChangesOnlyInAct ==
  [][/\ state # "ACT" => (nodes' = nodes /\ crews' = crews)
     /\ \A c \in CrewIds : crews[c].status = "Busy" => crews'[c].status = "Busy"]_vars

\* a run through all four states that started with a Busy crew: the ACT step
\* named that crew and failed the pair, and turned another crew Busy
C16_Witness ==
  /\ ActStepDone
  /\ pc = "loop"
  /\ \E c \in CrewIds :
       /\ initial_crews[c] = "Busy"
       /\ crews[c].status = "Busy"
       /\ \E i \in Pairs : call_args.crew_ids[i] = c
  /\ \E c \in CrewIds : initial_crews[c] = "Available" /\ crews[c].status = "Busy"

\* C17: every step appends exactly one history record, written before the state
\* advances: the record's state field names the state the step's action was
\* executed in (the first record of a run says DETECT), its step field is the
\* step number, and after every step the history is as long as step_count.
C17_RecordNamesExecutedState ==
  [][step_count' = step_count + 1
     => /\ Len(history') = Len(history) + 1
        /\ SubSeq(history', 1, Len(history)) = history
        /\ history'[Len(history')].state = state
        /\ history'[Len(history')].step = step_count'
        /\ Len(history') = step_count'
        /\ history'[1].state = "DETECT"]_vars

\* the step the agent takes on the oracle outcome o
C18_StepOn(o) == Detect(o) \/ Analyze(o) \/ Plan(o) \/ Act(o) \/ Malformed(o)

\* C18: a DETECT step and a PLAN step are independent of the oracle: from the
\* state a step of DETECT or PLAN is taken in, the step on any other oracle
\* outcome ends with the same failures list, the same repair plan, the same next
\* state and the same world as the step taken.
C18_DetectAndPlanIgnoreOracle ==
  [][(state \in {"DETECT", "PLAN"} /\ step_count' = step_count + 1)
     => \E f \in {failures'}, p \in {repair_plan'}, s \in {state'},
           n \in {nodes'}, c \in {crews'} :
          \A o \in StepOutcomes :
            ENABLED (/\ C18_StepOn(o)
                     /\ failures' = f
                     /\ repair_plan' = p
                     /\ state' = s
                     /\ nodes' = n
                     /\ crews' = c)]_vars

\* C19: whatever the oracle decides, a node becomes Repairing only if it was
\* Broken, is in the detected failures list and is a node of the repair plan: no
\* Operational node and no node outside the plan is ever set to Repairing.
C19_OnlyPlannedBrokenNodesRepaired ==
  [][\A n \in NodeIds :
       (nodes[n].status # "Repairing" /\ nodes'[n].status = "Repairing")
       => /\ nodes[n].status = "Broken"
          /\ n \in Range(failures)
          /\ n \in Range(PlanNodes)]_vars

\* C20: whatever the oracle decides, assignments are one-to-one over the run: no
\* node has more than one successful pair, and the number of crews that turned
\* Busy since the start of the run is the number of nodes that turned Repairing
\* (no node is Repairing when a run starts).
C20_AssignmentsOneToOne ==
  /\ \A p, q \in DOMAIN results :
       (results[p] = "Success" /\ results[q] = "Success" /\ p[2] = q[2]) => p = q
  /\ Cardinality({c \in CrewIds : initial_crews[c] # "Busy" /\ crews[c].status = "Busy"})
       = Cardinality({n \in NodeIds : nodes[n].status = "Repairing"})

====
